---- MODULE Spec2Model ----
(***************************************************************************)
(* Model of plot_functions.py: seven plotting helpers, each a fixed        *)
(* sequence of calls into the plotting library.  A call of a helper is one *)
(* action; the state records the helper called, its inputs, the library    *)
(* calls it issued (log, in program order), and how it ended.  The library *)
(* may raise at any call (fault); the helpers contain no try/except.       *)
(* The helpers share no state and none calls another, so a behaviour is    *)
(* one call made from the idle state.                                      *)
(* Strings the code builds or compares (file names) are sequences of       *)
(* one-character strings; other strings are opaque values.                 *)
(***************************************************************************)
EXTENDS Integers, Sequences, FiniteSets, TLC

VARIABLES fn, list_of_data, list_two, filename_to_save, line_style, y_lim,
          vlines, x_ticks, fault, log, outcome, exc

vars == <<fn, list_of_data, list_two, filename_to_save, line_style, y_lim,
          vlines, x_ticks, fault, log, outcome, exc>>

(* ------------------------------ bounds --------------------------------- *)

MaxSeries == 2

MaxSecond == 2

MaxVlines == 2

(* --------------------------- input domains ----------------------------- *)

c_scheme ==
    <<"#ffb400", "#d2980d", "#a57c1b", "#786028", "#363445", "#48446e",
      "#5e569b", "#776bcd", "#9080ff">>

NOSVG == <<"n", "o", "s", "v", "g">>

NOPDF == <<"n", "o", "p", "d", "f">>

PDF_EXT == <<".", "p", "d", "f">>

SVG_EXT == <<".", "s", "v", "g">>

FileNames == {NOSVG, NOPDF, <<>>, <<"f">>, <<"a", ".", "s", "v", "g">>}

\* Python's None for an optional list argument, and a supplied list.
None == [isNone |-> TRUE, val |-> <<>>]

Some(l) == [isNone |-> FALSE, val |-> l]

\* Truth value of an optional list in "if y_lim:" / "if vlines:".
Truthy(o) == ~o.isNone /\ Len(o.val) > 0

RECURSIVE ListsUpTo(_, _)
\* All sequences over S of length 0..n.
ListsUpTo(S, n) ==
    IF n = 0 THEN {<<>>}
    ELSE LET shorter == ListsUpTo(S, n - 1)
         IN  shorter \cup {Append(l, e) : l \in {s \in shorter : Len(s) = n - 1}, e \in S}

X1 == <<0, 1, 2>>

\* [data_x, data_y, label, color, line_style, marker_type]
SeriesPool ==
    { <<X1, <<1, 4, 9>>, "s1", c_scheme[1], "-", "o">>,
      <<X1, <<2, 3, 5>>, "s2", c_scheme[2], "--", "">> }

\* [data_x, data_y, label, color, line_style]
Series5Pool ==
    { <<X1, <<1, 4, 9>>, "s1", c_scheme[1], "-">>,
      <<X1, <<2, 3, 5>>, "s2", c_scheme[2], "--">> }

\* [data_x, data_y, data_y_error, label, color]
ErrorPool ==
    { <<X1, <<1, 4, 9>>, <<1, 1, 1>>, "e1", c_scheme[1]>>,
      <<X1, <<2, 3, 5>>, <<0, 1, 0>>, "e2", c_scheme[2]>> }

\* [data_x, data_y, data_y_error, label, color, line_style]
Error6Pool ==
    { <<X1, <<1, 4, 9>>, <<1, 1, 1>>, "e1", c_scheme[1], "">>,
      <<X1, <<2, 3, 5>>, <<0, 1, 0>>, "e2", c_scheme[2], ":">> }

\* [x_val, y_val, label, marker, size, color]
PointPool ==
    { <<1, 4, "p1", "x", 8, c_scheme[3]>>,
      <<2, 5, "p2", "s", 9, c_scheme[4]>> }

\* [data_x, data_y, label, color]
FitPool ==
    { <<X1, <<1, 4, 9>>, "f1", c_scheme[5]>>,
      <<X1, <<2, 3, 5>>, "f2", c_scheme[6]>> }

\* [x_val, color, linestyle]
VlinePool == { <<1, "red", "--">>, <<2, "blue", ":">> }

VlineArgs == {None} \cup {Some(l) : l \in ListsUpTo(VlinePool, MaxVlines)}

YLimArgs == {None, Some(<<>>), Some(<<0, 250>>)}

LineStyles == {"", "-", "--"}

LibErrors == {"ValueError", "TypeError"}

NoFault == [at |-> 0, err |-> "none"]

\* The library raises err at the at-th call of a run of n calls, or never.
Faults(n) == {NoFault} \cup [at : 1..n, err : LibErrors]

(* --------------------------- library calls ----------------------------- *)

\* One call into the plotting library: receiver, method, arguments of interest.
Call(target, op, args) == [target |-> target, op |-> op, args |-> args]

NoArgs == <<>>

\* plt.gca().xaxis.set_major_locator(MaxNLocator(nbins=x_ticks_limit))
set_major_locator ==
    << Call("plt", "gca", NoArgs), Call("ticker", "MaxNLocator", NoArgs),
       Call("xaxis", "set_major_locator", NoArgs) >>

\* plt.gca().xaxis.get_offset_text().set_fontsize(offset_text_size)
set_offset_fontsize ==
    << Call("plt", "gca", NoArgs), Call("xaxis", "get_offset_text", NoArgs),
       Call("text", "set_fontsize", NoArgs) >>

\* if vlines: for x_val, color, linestyle in vlines: <target>.axvline(...)
axvlines(target, vl) ==
    IF Truthy(vl)
    THEN [i \in 1..Len(vl.val) |->
            Call(target, "axvline",
                 [x |-> vl.val[i][1], color |-> vl.val[i][2], linestyle |-> vl.val[i][3]])]
    ELSE <<>>

\* if y_lim: plt.ylim(*y_lim)
ylim(yl) == IF Truthy(yl) THEN <<Call("plt", "ylim", [lim |-> yl.val])>> ELSE <<>>

\* Saves under the wrong extension.
savefig_svg(filename, sentinel) ==
    IF filename # sentinel
    THEN <<Call("plt", "savefig", [fname |-> filename \o SVG_EXT])>>
    ELSE <<>>

\* Saves whatever the file name is.
savefig_always(filename, sentinel) ==
    <<Call("plt", "savefig", [fname |-> filename \o PDF_EXT])>>

\* if filename_to_save != <sentinel>: fnts = filename_to_save + ".pdf"; plt.savefig(fnts)
savefig(filename, sentinel) ==
    IF filename # sentinel
    THEN <<Call("plt", "savefig", [fname |-> filename \o PDF_EXT])>>
    ELSE <<>>

\* The default of filename_to_save in each helper's signature.
DefaultFilename(name) ==
    CASE name = "plot_with_one_axis" -> NOSVG
      [] name = "plot_with_one_axis_with_vertical_lines" -> NOSVG
      [] name = "plot_with_one_axis_and_error_bars_BYLIST" -> NOSVG
      [] name = "plot_with_one_axis_with_points" -> NOPDF
      [] name = "plot_with_two_axes_with_N_curves_with_VERTICAL_lines" -> NOPDF
      [] name = "one_axis__N_Y_with_error_bars__with_N_fits" -> NOPDF
      [] name = "plot_dynamic_subplots" -> NOSVG
      [] OTHER -> NOSVG

(* ---------------------- the seven plotting helpers --------------------- *)
(* Each operator is the sequence of library calls the helper's body makes  *)
(* when no call raises.                                                    *)

plot_with_one_axis(lod, filename, yl) ==
    <<Call("plt", "figure", NoArgs)>>
    \o [i \in 1..Len(lod) |->
          Call("plt", "plot",
               [x |-> lod[i][1], y |-> lod[i][2], label |-> lod[i][3],
                marker |-> lod[i][6], linestyle |-> lod[i][5], color |-> lod[i][4]])]
    \o << Call("plt", "xlabel", NoArgs), Call("plt", "ylabel", NoArgs),
          Call("plt", "title", NoArgs), Call("plt", "legend", NoArgs),
          Call("plt", "xticks", NoArgs), Call("plt", "yticks", NoArgs) >>
    \o set_major_locator
    \o ylim(yl)
    \o <<Call("plt", "ticklabel_format", NoArgs)>>
    \o set_offset_fontsize
    \o savefig(filename, NOSVG)
    \o <<Call("plt", "show", NoArgs)>>

plot_with_one_axis_with_vertical_lines(lod, filename, vl, yl) ==
    <<Call("plt", "figure", NoArgs)>>
    \o [i \in 1..Len(lod) |->
          Call("plt", "plot",
               [x |-> lod[i][1], y |-> lod[i][2], label |-> lod[i][3],
                marker |-> lod[i][6], linestyle |-> lod[i][5], color |-> lod[i][4]])]
    \o << Call("plt", "xlabel", NoArgs), Call("plt", "ylabel", NoArgs),
          Call("plt", "title", NoArgs), Call("plt", "legend", NoArgs),
          Call("plt", "xticks", NoArgs), Call("plt", "yticks", NoArgs) >>
    \o set_major_locator
    \o <<Call("plt", "ticklabel_format", NoArgs)>>
    \o set_offset_fontsize
    \o ylim(yl)
    \o savefig(filename, NOSVG)
    \o axvlines("plt", vl)
    \o <<Call("plt", "show", NoArgs)>>

plot_with_one_axis_and_error_bars_BYLIST(ALLDATA, filename, ls) ==
    <<Call("plt", "figure", NoArgs)>>
    \o [i \in 1..Len(ALLDATA) |->
          Call("plt", "errorbar",
               [x |-> ALLDATA[i][1], y |-> ALLDATA[i][2], yerr |-> ALLDATA[i][3],
                label |-> ALLDATA[i][4], color |-> ALLDATA[i][5], linestyle |-> "-"])]
    \o << Call("plt", "xlabel", NoArgs), Call("plt", "ylabel", NoArgs),
          Call("plt", "title", NoArgs) >>
    \o savefig(filename, NOSVG)
    \o <<Call("plt", "show", NoArgs)>>

\* Draws the highlighted points before the series.
plot_with_one_axis_with_points_first(lod, lop, filename) ==
    <<Call("plt", "figure", NoArgs)>>
    \o [i \in 1..Len(lop) |->
          Call("plt", "plot",
               [x |-> lop[i][1], y |-> lop[i][2], label |-> lop[i][3],
                marker |-> lop[i][4], markersize |-> lop[i][5], color |-> lop[i][6]])]
    \o [i \in 1..Len(lod) |->
          Call("plt", "plot",
               [x |-> lod[i][1], y |-> lod[i][2], label |-> lod[i][3],
                linestyle |-> lod[i][5], color |-> lod[i][4]])]
    \o << Call("plt", "xlabel", NoArgs), Call("plt", "ylabel", NoArgs),
          Call("plt", "title", NoArgs) >>
    \o savefig(filename, NOPDF)
    \o <<Call("plt", "show", NoArgs)>>

plot_with_one_axis_with_points(lod, lop, filename) ==
    <<Call("plt", "figure", NoArgs)>>
    \o [i \in 1..Len(lod) |->
          Call("plt", "plot",
               [x |-> lod[i][1], y |-> lod[i][2], label |-> lod[i][3],
                linestyle |-> lod[i][5], color |-> lod[i][4]])]
    \o [i \in 1..Len(lop) |->
          Call("plt", "plot",
               [x |-> lop[i][1], y |-> lop[i][2], label |-> lop[i][3],
                marker |-> lop[i][4], markersize |-> lop[i][5], color |-> lop[i][6]])]
    \o << Call("plt", "xlabel", NoArgs), Call("plt", "ylabel", NoArgs),
          Call("plt", "title", NoArgs) >>
    \o savefig(filename, NOPDF)
    \o <<Call("plt", "show", NoArgs)>>

plot_with_two_axes_with_N_curves_with_VERTICAL_lines(data_y_one, data_y_two, filename, vl, xt) ==
    <<Call("plt", "subplots", NoArgs)>>
    \o (IF xt
        THEN << Call("ax1", "set_xlabel", NoArgs), Call("ax1", "tick_params", NoArgs) >>
        ELSE << Call("ax1", "set_xticklabels", NoArgs), Call("ax1", "tick_params", NoArgs),
                Call("ax1", "set_xlabel", NoArgs) >>)
    \o <<Call("ax1", "set_ylabel", NoArgs)>>
    \o [i \in 1..Len(data_y_one) |->
          Call("ax1", "plot",
               [x |-> data_y_one[i][1], y |-> data_y_one[i][2], color |-> data_y_one[i][4],
                label |-> data_y_one[i][3], marker |-> data_y_one[i][6],
                linestyle |-> data_y_one[i][5]])]
    \o << Call("ax1", "tick_params", NoArgs), Call("ax1", "twinx", NoArgs),
          Call("ax2", "set_ylabel", NoArgs) >>
    \o [i \in 1..Len(data_y_two) |->
          Call("ax2", "plot",
               [x |-> data_y_two[i][1], y |-> data_y_two[i][2], color |-> data_y_two[i][4],
                label |-> data_y_two[i][3], marker |-> data_y_two[i][6],
                linestyle |-> data_y_two[i][5]])]
    \o << Call("ax2", "tick_params", NoArgs), Call("fig", "tight_layout", NoArgs) >>
    \o [i \in 1..(Len(data_y_one) + Len(data_y_two)) |-> Call("line", "get_label", NoArgs)]
    \o << Call("plt", "title", NoArgs), Call("plt", "legend", NoArgs) >>
    \o axvlines("ax1", vl)
    \o savefig(filename, NOPDF)
    \o <<Call("plt", "show", NoArgs)>>

one_axis__N_Y_with_error_bars__with_N_fits(lod, list_of_fit, filename) ==
    <<Call("plt", "figure", NoArgs)>>
    \o [i \in 1..Len(lod) |->
          Call("plt", "errorbar",
               [x |-> lod[i][1], y |-> lod[i][2], yerr |-> lod[i][3], label |-> lod[i][4],
                color |-> lod[i][5], linestyle |-> lod[i][6]])]
    \o [i \in 1..Len(list_of_fit) |->
          Call("plt", "plot",
               [x |-> list_of_fit[i][1], y |-> list_of_fit[i][2],
                label |-> list_of_fit[i][3], color |-> list_of_fit[i][4]])]
    \o << Call("plt", "xlabel", NoArgs), Call("plt", "ylabel", NoArgs),
          Call("plt", "title", NoArgs), Call("plt", "legend", NoArgs),
          Call("plt", "xticks", NoArgs), Call("plt", "yticks", NoArgs) >>
    \o set_major_locator
    \o <<Call("plt", "ticklabel_format", NoArgs)>>
    \o set_offset_fontsize
    \o savefig(filename, NOPDF)
    \o <<Call("plt", "show", NoArgs)>>

\* The body of the loop of plot_dynamic_subplots for the i-th of n entries.
subplot_body(data, n, i) ==
    << Call("plt", "subplot", [nrows |-> n, ncols |-> 1, index |-> i]),
       Call("plt", "plot",
            [x |-> data[1], y |-> data[2], label |-> data[3], marker |-> data[6],
             linestyle |-> data[5], color |-> data[4]]),
       Call("plt", "xlabel", NoArgs), Call("plt", "ylabel", NoArgs),
       Call("plt", "legend", NoArgs) >>
    \o set_major_locator
    \o << Call("plt", "tick_params", NoArgs), Call("plt", "ticklabel_format", NoArgs) >>
    \o set_offset_fontsize
    \o << Call("plt", "xticks", NoArgs), Call("plt", "yticks", NoArgs) >>

RECURSIVE subplot_loop(_, _)
\* for i, data in enumerate(list_of_data, start=1): ... , from entry i on.
subplot_loop(lod, i) ==
    IF i > Len(lod) THEN <<>>
    ELSE subplot_body(lod[i], Len(lod), i) \o subplot_loop(lod, i + 1)

\* Shows the figure before saving it.
plot_dynamic_subplots_show_first(lod, filename) ==
    <<Call("plt", "figure", [figsize |-> <<8, Len(lod) * 4>>])>>
    \o subplot_loop(lod, 1)
    \o <<Call("plt", "tight_layout", NoArgs)>>
    \o <<Call("plt", "show", NoArgs)>>
    \o (IF filename # NOSVG
        THEN <<Call("plt", "savefig", [fname |-> filename \o PDF_EXT, format |-> "pdf"])>>
        ELSE <<>>)

plot_dynamic_subplots(lod, filename) ==
    <<Call("plt", "figure", [figsize |-> <<8, Len(lod) * 4>>])>>
    \o subplot_loop(lod, 1)
    \o <<Call("plt", "tight_layout", NoArgs)>>
    \o (IF filename # NOSVG
        THEN <<Call("plt", "savefig", [fname |-> filename \o PDF_EXT, format |-> "pdf"])>>
        ELSE <<>>)
    \o <<Call("plt", "show", NoArgs)>>

(* ------------------------------ execution ------------------------------ *)

\* A handler that swallows the library's error and carries on.
ExecuteSwallow(trace, f) ==
    [log |-> trace, outcome |-> "returned", exc |-> "none"]

\* Runs the body: the calls are issued in order; the first call that raises
\* ends the run with that error, as the bodies have no try/except.
Execute(trace, f) ==
    IF f.at = 0
    THEN [log |-> trace, outcome |-> "returned", exc |-> "none"]
    ELSE [log |-> SubSeq(trace, 1, f.at), outcome |-> "raised", exc |-> f.err]

Init ==
    /\ fn = "none"
    /\ list_of_data = <<>>
    /\ list_two = <<>>
    /\ filename_to_save = NOSVG
    /\ line_style = ""
    /\ y_lim = None
    /\ vlines = None
    /\ x_ticks = TRUE
    /\ fault = NoFault
    /\ log = <<>>
    /\ outcome = "idle"
    /\ exc = "none"

\* Records the end of a run r of helper name on fault f.
Finish(name, r, f) ==
    /\ fn' = name
    /\ fault' = f
    /\ log' = r.log
    /\ outcome' = r.outcome
    /\ exc' = r.exc

CallOneAxis ==
    /\ outcome = "idle"
    /\ \E lod \in ListsUpTo(SeriesPool, MaxSeries), name \in FileNames, yl \in YLimArgs :
      LET trace == plot_with_one_axis(lod, name, yl)
      IN  \E f \in Faults(Len(trace)) :
            /\ list_of_data' = lod
            /\ list_two' = <<>>
            /\ filename_to_save' = name
            /\ line_style' = ""
            /\ y_lim' = yl
            /\ vlines' = None
            /\ x_ticks' = TRUE
            /\ Finish("plot_with_one_axis", Execute(trace, f), f)

CallVerticalLines ==
    /\ outcome = "idle"
    /\ \E lod \in ListsUpTo(SeriesPool, MaxSeries), name \in FileNames,
       vl \in VlineArgs, yl \in {None, Some(<<0, 250>>)} :
      LET trace == plot_with_one_axis_with_vertical_lines(lod, name, vl, yl)
      IN  \E f \in Faults(Len(trace)) :
            /\ list_of_data' = lod
            /\ list_two' = <<>>
            /\ filename_to_save' = name
            /\ line_style' = ""
            /\ y_lim' = yl
            /\ vlines' = vl
            /\ x_ticks' = TRUE
            /\ Finish("plot_with_one_axis_with_vertical_lines", Execute(trace, f), f)

CallErrorBars ==
    /\ outcome = "idle"
    /\ \E lod \in ListsUpTo(ErrorPool, MaxSeries), name \in FileNames, ls \in LineStyles :
      LET trace == plot_with_one_axis_and_error_bars_BYLIST(lod, name, ls)
      IN  \E f \in Faults(Len(trace)) :
            /\ list_of_data' = lod
            /\ list_two' = <<>>
            /\ filename_to_save' = name
            /\ line_style' = ls
            /\ y_lim' = None
            /\ vlines' = None
            /\ x_ticks' = TRUE
            /\ Finish("plot_with_one_axis_and_error_bars_BYLIST", Execute(trace, f), f)

CallWithPoints ==
    /\ outcome = "idle"
    /\ \E lod \in ListsUpTo(Series5Pool, MaxSeries), lop \in ListsUpTo(PointPool, MaxSecond),
       name \in FileNames :
      LET trace == plot_with_one_axis_with_points(lod, lop, name)
      IN  \E f \in Faults(Len(trace)) :
            /\ list_of_data' = lod
            /\ list_two' = lop
            /\ filename_to_save' = name
            /\ line_style' = ""
            /\ y_lim' = None
            /\ vlines' = None
            /\ x_ticks' = TRUE
            /\ Finish("plot_with_one_axis_with_points", Execute(trace, f), f)

CallTwoAxes ==
    /\ outcome = "idle"
    /\ \E d1 \in ListsUpTo(SeriesPool, MaxSeries), d2 \in ListsUpTo(SeriesPool, MaxSecond),
       name \in FileNames, vl \in VlineArgs, xt \in BOOLEAN :
      LET trace == plot_with_two_axes_with_N_curves_with_VERTICAL_lines(d1, d2, name, vl, xt)
      IN  \E f \in Faults(Len(trace)) :
            /\ list_of_data' = d1
            /\ list_two' = d2
            /\ filename_to_save' = name
            /\ line_style' = ""
            /\ y_lim' = None
            /\ vlines' = vl
            /\ x_ticks' = xt
            /\ Finish("plot_with_two_axes_with_N_curves_with_VERTICAL_lines",
                      Execute(trace, f), f)

CallErrorBarsWithFits ==
    /\ outcome = "idle"
    /\ \E lod \in ListsUpTo(Error6Pool, MaxSeries), lof \in ListsUpTo(FitPool, MaxSecond),
       name \in FileNames :
      LET trace == one_axis__N_Y_with_error_bars__with_N_fits(lod, lof, name)
      IN  \E f \in Faults(Len(trace)) :
            /\ list_of_data' = lod
            /\ list_two' = lof
            /\ filename_to_save' = name
            /\ line_style' = ""
            /\ y_lim' = None
            /\ vlines' = None
            /\ x_ticks' = TRUE
            /\ Finish("one_axis__N_Y_with_error_bars__with_N_fits", Execute(trace, f), f)

CallDynamicSubplots ==
    /\ outcome = "idle"
    /\ \E lod \in ListsUpTo(SeriesPool, MaxSeries), name \in FileNames :
      LET trace == plot_dynamic_subplots(lod, name)
      IN  \E f \in Faults(Len(trace)) :
            /\ list_of_data' = lod
            /\ list_two' = <<>>
            /\ filename_to_save' = name
            /\ line_style' = ""
            /\ y_lim' = None
            /\ vlines' = None
            /\ x_ticks' = TRUE
            /\ Finish("plot_dynamic_subplots", Execute(trace, f), f)

Next ==
    \/ CallOneAxis
    \/ CallVerticalLines
    \/ CallErrorBars
    \/ CallWithPoints
    \/ CallTwoAxes
    \/ CallErrorBarsWithFits
    \/ CallDynamicSubplots

Spec == Init /\ [][Next]_vars

(* ------------------------------ properties ----------------------------- *)

\* Positions in the log of the calls of method op.
IndexesOf(op) == {i \in 1..Len(log) : log[i].op = op}

IsDraw(c) == c.op \in {"plot", "errorbar"}

DrawIndexes == {i \in 1..Len(log) : IsDraw(log[i])}

\* The drawing calls issued, in the order issued.
Draws == SelectSeq(log, IsDraw)

\* The input descriptors in the order the caller lists them.
Descriptors == list_of_data \o list_two

ErrorBarHelpers ==
    {"plot_with_one_axis_and_error_bars_BYLIST", "one_axis__N_Y_with_error_bars__with_N_fits"}

\* Whether the k-th descriptor is an error-bar series (label and colour in
\* places 4 and 5) or a curve, point or fit (label in place 3).
IsErrorDescriptor(k) == fn \in ErrorBarHelpers /\ k <= Len(list_of_data)

LabelOf(k) == IF IsErrorDescriptor(k) THEN Descriptors[k][4] ELSE Descriptors[k][3]

ColorOf(k) ==
    IF IsErrorDescriptor(k) THEN Descriptors[k][5]
    ELSE IF fn = "plot_with_one_axis_with_points" /\ k > Len(list_of_data)
         THEN Descriptors[k][6]
         ELSE Descriptors[k][4]

\* The k-th drawing call draws the k-th descriptor.
DrawsDescriptor(k) ==
    /\ Draws[k].op = (IF IsErrorDescriptor(k) THEN "errorbar" ELSE "plot")
    /\ Draws[k].args.label = LabelOf(k)
    /\ Draws[k].args.color = ColorOf(k)
    /\ Draws[k].args.x = Descriptors[k][1]
    /\ Draws[k].args.y = Descriptors[k][2]

EndsWith(s, suffix) ==
    /\ Len(s) >= Len(suffix)
    /\ SubSeq(s, Len(s) - Len(suffix) + 1, Len(s)) = suffix

\* C1: a call that returns has issued exactly one savefig call when
\* filename_to_save differs from the helper's own default, and none when it
\* equals that default; a call that raised has issued no more than that.
C1_SavefigIffNotDefault ==
    LET due == IF filename_to_save # DefaultFilename(fn) THEN 1 ELSE 0
    IN  /\ outcome = "returned" => Cardinality(IndexesOf("savefig")) = due
        /\ outcome = "raised" => Cardinality(IndexesOf("savefig")) <= due

\* A helper whose default is "nopdf" is given "nosvg" and saves once; the
\* same helper given "nopdf" returns without saving.
C1_Witness ==
    /\ outcome = "returned"
    /\ fn = "plot_with_one_axis_with_points"
    /\ filename_to_save = NOSVG
    /\ Cardinality(IndexesOf("savefig")) = 1

\* C2: the path of every savefig call is filename_to_save followed by ".pdf".
C2_PathIsNamePlusPdf ==
    \A i \in IndexesOf("savefig") : log[i].args.fname = filename_to_save \o PDF_EXT

C2_Witness ==
    /\ outcome = "returned"
    /\ filename_to_save = <<"a", ".", "s", "v", "g">>
    /\ \E i \in IndexesOf("savefig") :
          log[i].args.fname = <<"a", ".", "s", "v", "g", ".", "p", "d", "f">>

\* C3: the drawing calls are one per descriptor, in the order of the input
\* lists (first list before second list); error-bar series are drawn with
\* errorbar, everything else with plot.  A call that raised has drawn a
\* prefix of the descriptors.
C3_OneDrawPerDescriptorInOrder ==
    outcome # "idle" =>
        /\ Len(Draws) <= Len(Descriptors)
        /\ outcome = "returned" => Len(Draws) = Len(Descriptors)
        /\ \A k \in 1..Len(Draws) : DrawsDescriptor(k)

C3_Witness ==
    /\ outcome = "returned"
    /\ fn = "plot_with_one_axis_with_points"
    /\ Len(list_of_data) = 2
    /\ list_of_data[1] # list_of_data[2]
    /\ Len(list_two) = 2
    /\ list_two[1] # list_two[2]
    /\ Len(Draws) = 4
    /\ Draws[3].args.label = list_two[1][3]
    /\ Draws[4].args.label = list_two[2][3]

\* C4: a call that returns has issued exactly one show call, as its last
\* library call, and any savefig call before it.
C4_ShowOnceLastAfterSave ==
    outcome = "returned" =>
        /\ Cardinality(IndexesOf("show")) = 1
        /\ log[Len(log)].op = "show"
        /\ \A i \in IndexesOf("savefig") : \A j \in IndexesOf("show") : i < j

C4_Witness ==
    /\ outcome = "returned"
    /\ fn = "plot_dynamic_subplots"
    /\ Len(log) >= 2
    /\ log[Len(log) - 1].op = "savefig"
    /\ log[Len(log)].op = "show"

\* The calls that completed: every call issued except one that raised.
Completed(op) == {i \in IndexesOf(op) : fault.at = 0 \/ i < fault.at}

\* C5 as stated: when a library call raises, the helper ends with that same
\* error, the failing call is the last call it issued, no file has been saved
\* and the figure has not been shown.
C5_FailureSavesNothing ==
    fault.at # 0 =>
        /\ outcome = "raised"
        /\ exc = fault.err
        /\ Len(log) = fault.at
        /\ Completed("savefig") = {}
        /\ Completed("show") = {}

\* C5 amended: when a library call raises, the helper ends with that same
\* error, the failing call is the last call it issued and the figure has not
\* been shown; a file has been saved only when the call that raised is show,
\* or an axvline call of plot_with_one_axis_with_vertical_lines, both of
\* which the code issues after savefig.
C5_FailurePropagates ==
    fault.at # 0 =>
        /\ outcome = "raised"
        /\ exc = fault.err
        /\ Len(log) = fault.at
        /\ Completed("show") = {}
        /\ Completed("savefig") # {} =>
              \/ log[fault.at].op = "show"
              \/ /\ fn = "plot_with_one_axis_with_vertical_lines"
                 /\ log[fault.at].op = "axvline"

\* show raises after savefig has completed: the error reaches the caller and
\* the file stays written.
C5_Witness ==
    /\ outcome = "raised"
    /\ fn = "plot_with_one_axis"
    /\ filename_to_save = <<"f">>
    /\ exc = "TypeError"
    /\ log[Len(log)].op = "show"
    /\ Completed("show") = {}
    /\ Cardinality(Completed("savefig")) = 1

\* C6: every errorbar call of plot_with_one_axis_and_error_bars_BYLIST has
\* linestyle equal to the caller's line_style.
C6_LineStyleIsUsed ==
    fn = "plot_with_one_axis_and_error_bars_BYLIST" =>
        \A i \in IndexesOf("errorbar") : log[i].args.linestyle = line_style

\* C7: in the four helpers whose docstring says so, a saved file is an SVG
\* file: the path handed to savefig ends in ".svg".
C7_SavedAsSvg ==
    fn \in {"plot_with_one_axis", "plot_with_one_axis_with_vertical_lines",
            "plot_with_one_axis_and_error_bars_BYLIST", "plot_with_one_axis_with_points"} =>
        \A i \in IndexesOf("savefig") : EndsWith(log[i].args.fname, SVG_EXT)

\* C8: in both helpers that take vlines, every axvline call comes before the
\* savefig call.
C8_VlinesBeforeSave ==
    fn \in {"plot_with_one_axis_with_vertical_lines",
            "plot_with_two_axes_with_N_curves_with_VERTICAL_lines"} =>
        \A i \in IndexesOf("axvline") : \A j \in IndexesOf("savefig") : i < j

\* C9: a call that returns after drawing labelled series has issued a legend
\* call after its drawing calls and before savefig and show.
C9_LegendAfterDraws ==
    (outcome = "returned" /\ DrawIndexes # {}) =>
        \E g \in IndexesOf("legend") :
            /\ \A d \in DrawIndexes : d < g
            /\ \A j \in IndexesOf("savefig") \cup IndexesOf("show") : g < j

====
